---- MODULE Spec2Model ----
(***************************************************************************)
(* PaisaTrack (src/src/App.tsx): the App component's state, its two        *)
(* effects (load, save), its event handlers and the figures it derives at  *)
(* render from (transactions, budget, today).                              *)
(*                                                                         *)
(* Time.  An instant is an integer number of ticks; a local calendar day   *)
(* has TicksPerDay ticks, the first being 00:00:00.000 and the last        *)
(* 23:59:59.999.  Day 0 is Thursday 1970-01-01, so day 25 is Monday        *)
(* 1970-01-26 and day 31 is Sunday 1970-02-01.                             *)
(* Amounts are whole currency units.                                       *)
(***************************************************************************)
EXTENDS Integers, Sequences, FiniteSets, TLC

VARIABLES
    pc,               \* where React is: "mounted", "loaded", "queued", "save", "idle", "crashed"
    stored,           \* localStorage item 'paisatrack_data'
    stored0,          \* the item as it was before mount (history)
    queued,           \* state updates queued by the load effect, applied at the re-render
    transactions,     \* useState<Transaction[]>
    budget,           \* useState(new Budget())
    activeTab, isAddModalOpen, isScanModalOpen, copied,
    newAmount, newCategory, newMethod, newNote,
    today,            \* const today = new Date() of the last render
    nEvents,          \* number of user events handled so far
    lastOp,           \* the last handler or effect that ran (history)
    call              \* the last direct application of a pure function (history)

vars == <<pc, stored, stored0, queued, transactions, budget, activeTab,
          isAddModalOpen, isScanModalOpen, copied, newAmount, newCategory,
          newMethod, newNote, today, nEvents, lastOp, call>>

uiVars == <<activeTab, isAddModalOpen, isScanModalOpen, copied>>
formVars == <<newAmount, newCategory, newMethod, newNote>>

-----------------------------------------------------------------------------
(* Bounds *)

TicksPerDay == 3
HorizonDays == 9
MaxEvents == 3
MaxAggTx == 2

-----------------------------------------------------------------------------
(* Program constants *)

DefaultMonthlyLimit == 25000
DefaultWeeklyAllowance == 4000
WeekStartsOn == 1
ChaiPercent == 15
SmsBase == 20
SmsSpan == 200

Categories == {"Mess/Food", "Metro/Auto", "Mobile/WiFi", "PG/Rent",
               "Photocopy/Stationery", "Social", "Misc"}
PaymentMethods == {"UPI", "Cash", "Card"}
Tabs == {"dashboard", "analytics", "split", "settings"}

Max(a, b) == IF a >= b THEN a ELSE b
Abs(a) == IF a >= 0 THEN a ELSE -a

-----------------------------------------------------------------------------
(* Dates (JavaScript Date, date-fns) *)

DayOf(t) == t \div TicksPerDay
TickOfDay(t) == t % TicksPerDay
AtStartOfDay(d) == d * TicksPerDay
AtEndOfDay(d) == d * TicksPerDay + (TicksPerDay - 1)

\* Date.prototype.getDay(): 0 = Sunday .. 6 = Saturday
GetDay(t) == (DayOf(t) + 4) % 7

\* first days of January .. April 1970
MonthFirstDays == <<0, 31, 59, 90>>

MonthIndex(d) == CHOOSE m \in 1..3 : MonthFirstDays[m] <= d /\ d < MonthFirstDays[m + 1]

\* startOfWeek(date) with the library's default weekStartsOn: 0
StartOfWeekSunday(t) == AtStartOfDay(DayOf(t) - GetDay(t))

\* startOfWeek(date, { weekStartsOn: 1 })
StartOfWeek(t) ==
    LET day == GetDay(t)
        diff == (IF day < WeekStartsOn THEN 7 ELSE 0) + day - WeekStartsOn
    IN  AtStartOfDay(DayOf(t) - diff)

\* endOfWeek(date, { weekStartsOn: 1 })
EndOfWeek(t) ==
    LET day == GetDay(t)
        diff == (IF day < WeekStartsOn THEN -7 ELSE 0) + 6 - (day - WeekStartsOn)
    IN  AtEndOfDay(DayOf(t) + diff)

\* startOfMonth(date)
StartOfMonth(t) == AtStartOfDay(MonthFirstDays[MonthIndex(DayOf(t))])

\* isSameDay(a, b)
IsSameDay(a, b) == DayOf(a) = DayOf(b)

CompareAsc(a, b) == IF a < b THEN -1 ELSE IF a > b THEN 1 ELSE 0

\* differenceInDays(dateLeft, dateRight): full days, truncated towards zero
DifferenceInDays(l, r) ==
    LET sign == CompareAsc(l, r)
        difference == Abs(DayOf(l) - DayOf(r))
        moved == l - sign * difference * TicksPerDay
        isLastDayNotFull == IF CompareAsc(moved, r) = -sign /\ sign # 0 THEN 1 ELSE 0
    IN  sign * (difference - isLastDayNotFull)

\* the date without its time of day (toISOString().slice(0, 10))
ToISODateOnly(t) ==
    LET d == DayOf(t)
        m == MonthIndex(d)
    IN  [month |-> m, day |-> d - MonthFirstDays[m] + 1, tick |-> 0]

\* Date.prototype.toISOString(): the calendar fields of the instant
ToISOString(t) ==
    LET d == DayOf(t)
        m == MonthIndex(d)
    IN  [month |-> m, day |-> d - MonthFirstDays[m] + 1, tick |-> TickOfDay(t)]

\* new Date(isoString)
ParseISO(s) == (MonthFirstDays[s.month] + s.day - 1) * TicksPerDay + s.tick

-----------------------------------------------------------------------------
(* Domain models *)

\* new Transaction(amount, category, method, note, date) with the id drawn
\* by Math.random().toString(36).substr(2, 9)
NewTransaction(id, amount, category, method, note, date) ==
    [id |-> id, amount |-> amount, category |-> category, method |-> method,
     date |-> date, note |-> note]

\* Transaction.toJSON
ToJSON(t) ==
    [id |-> t.id, amount |-> t.amount, category |-> t.category,
     method |-> t.method, date |-> ToISOString(t.date), note |-> t.note]

\* fromJSON without "t.id = json.id"
FromJSONKeepFreshId(json, freshId) ==
    NewTransaction(freshId, json.amount, json.category, json.method,
                   json.note, ParseISO(json.date))

\* Transaction.fromJSON: constructs with a fresh id, then overwrites it
FromJSON(json, freshId) ==
    LET t == NewTransaction(freshId, json.amount, json.category, json.method,
                            json.note, ParseISO(json.date))
    IN  [t EXCEPT !.id = json.id]

\* new Budget(monthlyLimit, weeklyAllowance)
NewBudget(monthlyLimit, weeklyAllowance) ==
    [monthlyLimit |-> monthlyLimit, weeklyAllowance |-> weeklyAllowance]

DefaultBudget == NewBudget(DefaultMonthlyLimit, DefaultWeeklyAllowance)

\* getDailyLimit without Math.max(0, ...)
GetDailyLimitUnclamped(b, weeklySpent, daysLeft) ==
    [num |-> b.weeklyAllowance - weeklySpent, den |-> Max(1, daysLeft)]

\* getDailyLimit without Math.max(1, ...)
GetDailyLimitNoDayGuard(b, weeklySpent, daysLeft) ==
    [num |-> Max(0, b.weeklyAllowance - weeklySpent), den |-> daysLeft]

\* Budget.getDailyLimit: the quotient is kept as the fraction num/den, den >= 1
GetDailyLimit(b, weeklySpent, daysLeft) ==
    LET remaining == Max(0, b.weeklyAllowance - weeklySpent)
    IN  [num |-> remaining, den |-> Max(1, daysLeft)]

-----------------------------------------------------------------------------
(* Figures derived at render *)

RECURSIVE SumAmounts(_)
\* list.reduce((acc, t) => acc + t.amount, 0)
SumAmounts(list) ==
    IF list = <<>> THEN 0 ELSE list[1].amount + SumAmounts(Tail(list))

InWeekWindow(t, weekStart, weekEnd) == t.date >= weekStart /\ t.date <= weekEnd

\* the Misc filter dropped
IsAnyCategory(t) == t.category \in Categories

IsMisc(t) == t.category = "Misc"

WeeklyTransactionsOf(txs, now) ==
    LET weekStart == StartOfWeek(now)
        weekEnd == EndOfWeek(now)
    IN  SelectSeq(txs, LAMBDA t : InWeekWindow(t, weekStart, weekEnd))

DaysLeftInWeekOf(now) == DifferenceInDays(EndOfWeek(now), now) + 1

WeeklySpentOf(txs, now) == SumAmounts(WeeklyTransactionsOf(txs, now))

TodaySpentOf(txs, now) ==
    SumAmounts(SelectSeq(txs, LAMBDA t : IsSameDay(t.date, now)))

MiscSpentOf(txs, now) ==
    SumAmounts(SelectSeq(WeeklyTransactionsOf(txs, now), IsMisc))

\* the comparison with >= in place of >
ChaiIndexExceededAtThreshold(txs, b, now) ==
    MiscSpentOf(txs, now) * 100 >= b.weeklyAllowance * ChaiPercent

\* miscSpent > budget.weeklyAllowance * 0.15; on whole amounts the double
\* product compares like the exact 15/100 of the allowance
ChaiIndexExceededOf(txs, b, now) ==
    MiscSpentOf(txs, now) * 100 > b.weeklyAllowance * ChaiPercent

RECURSIVE CountsOverwrite(_, _)
\* counts[t.category] = t.amount
CountsOverwrite(list, counts) ==
    IF list = <<>> THEN counts
    ELSE LET t == list[1]
         IN  CountsOverwrite(Tail(list),
                 [c \in (DOMAIN counts) \cup {t.category} |->
                     IF c = t.category THEN t.amount ELSE counts[c]])

RECURSIVE CountsOf(_, _)
\* weeklyTransactions.forEach(t => counts[t.category] = (counts[t.category] || 0) + t.amount)
CountsOf(list, counts) ==
    IF list = <<>> THEN counts
    ELSE LET t == list[1]
             old == IF t.category \in DOMAIN counts THEN counts[t.category] ELSE 0
             new == [c \in (DOMAIN counts) \cup {t.category} |->
                        IF c = t.category THEN old + t.amount ELSE counts[c]]
         IN  CountsOf(Tail(list), new)

\* categoryData, as the mapping name -> value of Object.entries(counts)
CategoryDataOf(txs, now) == CountsOf(WeeklyTransactionsOf(txs, now), <<>>)

InMonthWindow(t, now) == t.date >= StartOfMonth(now)

\* Total Monthly Spend
MonthlySpentOf(txs, now) ==
    SumAmounts(SelectSeq(txs, LAMBDA t : InMonthWindow(t, now)))

weeklyTransactions == WeeklyTransactionsOf(transactions, today)
daysLeftInWeek == DaysLeftInWeekOf(today)
weeklySpent == WeeklySpentOf(transactions, today)
dailyLimit == GetDailyLimit(budget, weeklySpent, daysLeftInWeek)
todaySpent == TodaySpentOf(transactions, today)
miscSpent == MiscSpentOf(transactions, today)
chaiIndexExceeded == ChaiIndexExceededOf(transactions, budget, today)
categoryData == CategoryDataOf(transactions, today)
monthlySpent == MonthlySpentOf(transactions, today)

-----------------------------------------------------------------------------
(* Text <-> number (a text is a sequence of one-character strings) *)

Digits == <<"0", "1", "2", "3", "4", "5", "6", "7", "8", "9">>
IsDigit(c) == \E i \in 1..10 : Digits[i] = c
DigitValue(c) == (CHOOSE i \in 1..10 : Digits[i] = c) - 1

RECURSIVE ReadDigits(_, _, _)
\* value of the longest run of digits of text starting at position i
ReadDigits(text, i, acc) ==
    IF i > Len(text) \/ ~IsDigit(text[i]) THEN acc
    ELSE ReadDigits(text, i + 1, acc * 10 + DigitValue(text[i]))

\* parseFloat(text) on texts of sign and digits: NaN unless a digit follows
\* the optional sign; anything after the digits is ignored
ParseFloat(text) ==
    LET neg == Len(text) >= 1 /\ text[1] = "-"
        first == IF neg THEN 2 ELSE 1
    IN  IF first > Len(text) \/ ~IsDigit(text[first])
        THEN [nan |-> TRUE, val |-> 0]
        ELSE [nan |-> FALSE,
              val |-> (IF neg THEN -1 ELSE 1) * ReadDigits(text, first, 0)]

RECURSIVE ToStringNat(_)
\* Number.prototype.toString() of a non-negative integer
ToStringNat(n) ==
    IF n < 10 THEN <<Digits[n + 1]>>
    ELSE Append(ToStringNat(n \div 10), Digits[(n % 10) + 1])

-----------------------------------------------------------------------------
(* Persistence: the localStorage item *)

NullItem == [kind |-> "null"]
CorruptItem == [kind |-> "corrupt"]
NoUpdate == [kind |-> "none"]
NoCall == [fn |-> "none"]

RECURSIVE MapToJSON(_)
MapToJSON(txs) ==
    IF txs = <<>> THEN <<>> ELSE <<ToJSON(txs[1])>> \o MapToJSON(Tail(txs))

RECURSIVE MapFromJSON(_, _)
MapFromJSON(list, freshId) ==
    IF list = <<>> THEN <<>>
    ELSE <<FromJSON(list[1], freshId)>> \o MapFromJSON(Tail(list), freshId)

\* an incremental write: only the newest transaction is stored
SnapshotNewestOnly(txs, b) ==
    [kind |-> "json",
     transactions |-> MapToJSON(IF txs = <<>> THEN <<>> ELSE <<txs[1]>>),
     budget |-> [monthlyLimit |-> b.monthlyLimit, weeklyAllowance |-> b.weeklyAllowance]]

\* JSON.stringify({ transactions: transactions.map(t => t.toJSON()), budget: {...} })
Snapshot(txs, b) ==
    [kind |-> "json",
     transactions |-> MapToJSON(txs),
     budget |-> [monthlyLimit |-> b.monthlyLimit, weeklyAllowance |-> b.weeklyAllowance]]

-----------------------------------------------------------------------------
(* Inputs of the application model *)

\* render instants: Sat 1970-01-31 23:59:59.999, Sun 1970-02-01 00:00:00.000,
\* Mon 1970-02-02 00:00:00.000
ClockInstants == {AtEndOfDay(30), AtStartOfDay(31), AtStartOfDay(32)}
Later(t) == {u \in ClockInstants : u >= t}

RandomIds == {"id1", "id2"}
AmountTexts == {<<>>, <<"1">>, <<"1", "5", "1">>, <<"-", "5">>}
SmsDraws == {0, SmsSpan - 1}
TypedNotes == {"", "chai"}

StoredTxA == [id |-> "id1", amount |-> 100, category |-> "Misc", method |-> "Cash",
              date |-> ToISOString(AtEndOfDay(30)), note |-> "chai"]
StoredTxB == [id |-> "id2", amount |-> 50, category |-> "Social", method |-> "UPI",
              date |-> ToISOString(AtStartOfDay(31)), note |-> ""]
StoredBudgets == {[monthlyLimit |-> DefaultMonthlyLimit, weeklyAllowance |-> DefaultWeeklyAllowance],
                  [monthlyLimit |-> 5000, weeklyAllowance |-> 1000]}
StoredRecords ==
    {[kind |-> "json", transactions |-> l, budget |-> b] :
        l \in {<<>>, <<StoredTxB>>, <<StoredTxB, StoredTxA>>}, b \in StoredBudgets}
StoredInputs == {NullItem, CorruptItem} \cup StoredRecords

-----------------------------------------------------------------------------
(* The application *)

Init ==
    /\ pc = "mounted"
    /\ stored \in StoredInputs
    /\ stored0 = stored
    /\ queued = NoUpdate
    /\ transactions = <<>>
    /\ budget = DefaultBudget
    /\ activeTab = "dashboard"
    /\ isAddModalOpen = FALSE
    /\ isScanModalOpen = FALSE
    /\ copied = FALSE
    /\ newAmount = <<>>
    /\ newCategory = "Mess/Food"
    /\ newMethod = "UPI"
    /\ newNote = ""
    /\ today \in ClockInstants
    /\ nEvents = 0
    /\ lastOp = "mount"
    /\ call = NoCall

\* useEffect(() => { const saved = localStorage.getItem(...); if (saved) {...} }, [])
\* JSON.parse throws on a corrupt item: the component tree is unmounted;
\* whether the save effect of the same commit still runs depends on the
\* React version, so both outcomes are possible.
LoadEffect ==
    /\ pc = "mounted"
    /\ IF stored.kind = "null"
       THEN /\ pc' = "loaded"
            /\ UNCHANGED <<queued, stored>>
       ELSE IF stored.kind = "corrupt"
       THEN /\ pc' = "crashed"
            /\ stored' \in {stored, Snapshot(transactions, budget)}
            /\ UNCHANGED queued
       ELSE /\ \E freshId \in RandomIds :
                queued' = [kind |-> "update",
                           transactions |-> MapFromJSON(stored.transactions, freshId),
                           budget |-> NewBudget(stored.budget.monthlyLimit,
                                                stored.budget.weeklyAllowance)]
            /\ pc' = "loaded"
            /\ UNCHANGED stored
    /\ lastOp' = "loadEffect"
    /\ UNCHANGED <<stored0, transactions, budget, uiVars, formVars, today, nEvents, call>>

\* useEffect(() => { localStorage.setItem('paisatrack_data', ...) }, [transactions, budget])
SaveEffect ==
    /\ pc \in {"loaded", "save"}
    /\ stored' = Snapshot(transactions, budget)
    /\ pc' = IF queued.kind = "update" THEN "queued" ELSE "idle"
    /\ lastOp' = "saveEffect"
    /\ UNCHANGED <<stored0, queued, transactions, budget, uiVars, formVars, today, nEvents, call>>

\* the re-render that applies setTransactions(...) and setBudget(...) of the load effect
Rerender ==
    /\ pc = "queued"
    /\ transactions' = queued.transactions
    /\ budget' = queued.budget
    /\ queued' = NoUpdate
    /\ today' \in Later(today)
    /\ pc' = "save"
    /\ lastOp' = "rerender"
    /\ UNCHANGED <<stored, stored0, uiVars, formVars, nEvents, call>>

\* a user event is handled when React is idle; the render that follows reads the clock
Event(name) ==
    /\ pc = "idle"
    /\ nEvents < MaxEvents
    /\ nEvents' = nEvents + 1
    /\ lastOp' = name
    /\ UNCHANGED <<stored0, queued, call>>

SetActiveTab ==
    /\ Event("setActiveTab")
    /\ \E tab \in Tabs : activeTab' = tab
    /\ today' \in Later(today)
    /\ UNCHANGED <<pc, stored, transactions, budget, isAddModalOpen, isScanModalOpen,
                   copied, formVars>>

SetIsAddModalOpen ==
    /\ Event("setIsAddModalOpen")
    /\ \E open \in BOOLEAN :
        /\ (open = FALSE) => isAddModalOpen
        /\ isAddModalOpen' = open
    /\ today' \in Later(today)
    /\ UNCHANGED <<pc, stored, transactions, budget, activeTab, isScanModalOpen,
                   copied, formVars>>

SetIsScanModalOpen ==
    /\ Event("setIsScanModalOpen")
    /\ \E open \in BOOLEAN :
        /\ IF open THEN activeTab = "dashboard" ELSE isScanModalOpen
        /\ isScanModalOpen' = open
    /\ today' \in Later(today)
    /\ UNCHANGED <<pc, stored, transactions, budget, activeTab, isAddModalOpen,
                   copied, formVars>>

\* const amount = Math.floor(Math.random() * 200) + 20; ...
SimulateSMSUpdate(draw) ==
    /\ newAmount' = ToStringNat(draw + SmsBase)
    /\ newNote' = "Simulated from SMS"
    /\ newCategory' = "Mess/Food"
    /\ isAddModalOpen' = TRUE

SimulateSMS ==
    /\ Event("simulateSMS")
    /\ \E draw \in SmsDraws : SimulateSMSUpdate(draw)
    /\ today' \in Later(today)
    /\ UNCHANGED <<pc, stored, transactions, budget, activeTab, isScanModalOpen,
                   copied, newMethod>>

\* the scan modal's button: setIsScanModalOpen(false); simulateSMS();
SimulateScan ==
    /\ Event("simulateScan")
    /\ isScanModalOpen
    /\ isScanModalOpen' = FALSE
    /\ \E draw \in SmsDraws : SimulateSMSUpdate(draw)
    /\ today' \in Later(today)
    /\ UNCHANGED <<pc, stored, transactions, budget, activeTab, copied, newMethod>>

CopyUPI ==
    /\ Event("copyUPI")
    /\ activeTab = "split"
    /\ copied' = TRUE
    /\ today' \in Later(today)
    /\ UNCHANGED <<pc, stored, transactions, budget, activeTab, isAddModalOpen,
                   isScanModalOpen, formVars>>

\* setTimeout(() => setCopied(false), 2000)
CopiedTimeout ==
    /\ pc = "idle"
    /\ copied
    /\ copied' = FALSE
    /\ lastOp' = "copiedTimeout"
    /\ today' \in Later(today)
    /\ UNCHANGED <<pc, stored, stored0, queued, transactions, budget, activeTab,
                   isAddModalOpen, isScanModalOpen, formVars, nEvents, call>>

SetNewAmount ==
    /\ Event("setNewAmount")
    /\ isAddModalOpen
    /\ \E text \in AmountTexts : newAmount' = text
    /\ today' \in Later(today)
    /\ UNCHANGED <<pc, stored, transactions, budget, uiVars, newCategory, newMethod, newNote>>

SetNewCategory ==
    /\ Event("setNewCategory")
    /\ isAddModalOpen
    /\ \E cat \in Categories : newCategory' = cat
    /\ today' \in Later(today)
    /\ UNCHANGED <<pc, stored, transactions, budget, uiVars, newAmount, newMethod, newNote>>

SetNewMethod ==
    /\ Event("setNewMethod")
    /\ isAddModalOpen
    /\ \E m \in PaymentMethods : newMethod' = m
    /\ today' \in Later(today)
    /\ UNCHANGED <<pc, stored, transactions, budget, uiVars, newAmount, newCategory, newNote>>

SetNewNote ==
    /\ Event("setNewNote")
    /\ isAddModalOpen
    /\ \E n \in TypedNotes : newNote' = n
    /\ today' \in Later(today)
    /\ UNCHANGED <<pc, stored, transactions, budget, uiVars, newAmount, newCategory, newMethod>>

\* the guard dropped
AmountNeverRejected(text) == FALSE

\* if (!newAmount || isNaN(parseFloat(newAmount))) return;
AmountRejected(text) == text = <<>> \/ ParseFloat(text).nan

\* setTransactions([t])
ReplaceWith(t, txs) == <<t>>

\* [t, ...transactions]
Prepend(t, txs) == <<t>> \o txs

HandleAddTransaction ==
    /\ Event("handleAddTransaction")
    /\ isAddModalOpen
    /\ IF AmountRejected(newAmount)
       THEN UNCHANGED <<pc, stored, transactions, budget, uiVars, formVars, today>>
       ELSE \E id \in RandomIds, now \in Later(today) :
                /\ transactions' = Prepend(NewTransaction(id, ParseFloat(newAmount).val,
                                               newCategory, newMethod, newNote, now),
                                           transactions)
                /\ newAmount' = <<>>
                /\ newNote' = ""
                /\ isAddModalOpen' = FALSE
                /\ today' \in Later(now)
                /\ pc' = "save"
                /\ UNCHANGED <<stored, budget, activeTab, isScanModalOpen, copied,
                               newCategory, newMethod>>

Next ==
    \/ LoadEffect
    \/ SaveEffect
    \/ Rerender
    \/ SetActiveTab
    \/ SetIsAddModalOpen
    \/ SetIsScanModalOpen
    \/ SimulateSMS
    \/ SimulateScan
    \/ CopyUPI
    \/ CopiedTimeout
    \/ SetNewAmount
    \/ SetNewCategory
    \/ SetNewMethod
    \/ SetNewNote
    \/ HandleAddTransaction

Spec == Init /\ [][Next]_vars

-----------------------------------------------------------------------------
(* Budget.getDailyLimit applied to arbitrary arguments *)

AllowanceInputs == {1, 1000, DefaultWeeklyAllowance}
WeeklySpentInputs == {-100, 0, 1, 1000, 3999, 4000, 5000}
DaysLeftInputs == {-1, 0, 1, 2, 4, 7}

InitBudget ==
    /\ pc = "idle"
    /\ stored = NullItem
    /\ stored0 = NullItem
    /\ queued = NoUpdate
    /\ transactions = <<>>
    /\ \E wa \in AllowanceInputs : budget = NewBudget(DefaultMonthlyLimit, wa)
    /\ activeTab = "dashboard"
    /\ isAddModalOpen = FALSE
    /\ isScanModalOpen = FALSE
    /\ copied = FALSE
    /\ newAmount = <<>>
    /\ newCategory = "Mess/Food"
    /\ newMethod = "UPI"
    /\ newNote = ""
    /\ today \in ClockInstants
    /\ nEvents = 0
    /\ lastOp = "mount"
    /\ call = NoCall

CallGetDailyLimit ==
    /\ \E ws \in WeeklySpentInputs, dl \in DaysLeftInputs :
        call' = [fn |-> "getDailyLimit", weeklySpent |-> ws, daysLeft |-> dl,
                 result |-> GetDailyLimit(budget, ws, dl)]
    /\ UNCHANGED <<pc, stored, stored0, queued, transactions, budget, uiVars,
                   formVars, today, nEvents, lastOp>>

NextBudget == CallGetDailyLimit

SpecBudget == InitBudget /\ [][NextBudget]_vars

-----------------------------------------------------------------------------
(* The render-time figures over arbitrary transaction lists and instants *)

\* Sun 1970-01-25 00:00:00.000 .. the last tick of the horizon
AggInstants == AtStartOfDay(24) .. AtEndOfDay(24 + HorizonDays - 1)
\* Sat 01-31 23:59:59.999, Sun 02-01 23:59:59.999, Mon 02-02 00:00:00.000
AggDates == {AtEndOfDay(30), AtEndOfDay(31), AtStartOfDay(32)}
AggAmounts == {1, 50, 100, 150}
AggCategories == {"Misc", "Social"}
AggTransactions ==
    {NewTransaction("id1", a, c, "UPI", "", d) :
        a \in AggAmounts, c \in AggCategories, d \in AggDates}
AggLists == UNION {[1..n -> AggTransactions] : n \in 0..MaxAggTx}

InitAgg ==
    /\ pc = "idle"
    /\ transactions \in AggLists
    /\ \E wa \in {1000, DefaultWeeklyAllowance} : budget = NewBudget(DefaultMonthlyLimit, wa)
    /\ stored = Snapshot(transactions, budget)
    /\ stored0 = stored
    /\ queued = NoUpdate
    /\ activeTab = "dashboard"
    /\ isAddModalOpen = FALSE
    /\ isScanModalOpen = FALSE
    /\ copied = FALSE
    /\ newAmount = <<>>
    /\ newCategory = "Mess/Food"
    /\ newMethod = "UPI"
    /\ newNote = ""
    /\ today = AtStartOfDay(24)
    /\ nEvents = 0
    /\ lastOp = "render"
    /\ call = NoCall

\* a render at a later instant: const today = new Date() and the figures after it
Render ==
    /\ pc = "idle"
    /\ \E now \in AggInstants : now > today /\ today' = now
    /\ lastOp' = "render"
    /\ UNCHANGED <<pc, stored, stored0, queued, transactions, budget, uiVars,
                   formVars, nEvents, call>>

NextAgg == Render

SpecAgg == InitAgg /\ [][NextAgg]_vars

-----------------------------------------------------------------------------
(* Transaction.fromJSON(t.toJSON()) applied to arbitrary transactions *)

RoundTripTransactions ==
    {NewTransaction(id, a, c, m, n, d) :
        id \in RandomIds, a \in {-5, 151}, c \in Categories, m \in PaymentMethods,
        n \in TypedNotes, d \in AggInstants}

InitRoundTrip ==
    /\ pc = "idle"
    /\ \E t \in RoundTripTransactions : transactions = <<t>>
    /\ budget = DefaultBudget
    /\ stored = Snapshot(transactions, budget)
    /\ stored0 = stored
    /\ queued = NoUpdate
    /\ activeTab = "dashboard"
    /\ isAddModalOpen = FALSE
    /\ isScanModalOpen = FALSE
    /\ copied = FALSE
    /\ newAmount = <<>>
    /\ newCategory = "Mess/Food"
    /\ newMethod = "UPI"
    /\ newNote = ""
    /\ today = AtStartOfDay(24)
    /\ nEvents = 0
    /\ lastOp = "mount"
    /\ call = NoCall

CallRoundTrip ==
    /\ call = NoCall
    /\ \E i \in DOMAIN transactions, freshId \in RandomIds :
        call' = [fn |-> "roundTrip", original |-> transactions[i], freshId |-> freshId,
                 json |-> ToJSON(transactions[i]),
                 result |-> FromJSON(ToJSON(transactions[i]), freshId)]
    /\ UNCHANGED <<pc, stored, stored0, queued, transactions, budget, uiVars,
                   formVars, today, nEvents, lastOp>>

NextRoundTrip == CallRoundTrip

SpecRoundTrip == InitRoundTrip /\ [][NextRoundTrip]_vars

-----------------------------------------------------------------------------
(* Properties *)

\* Monday = 0 .. Sunday = 6, and the number of the Monday-based week
MondayIndex(t) == (DayOf(t) + 3) % 7
WeekNumber(t) == (DayOf(t) + 3) \div 7
SameWeek(a, b) == WeekNumber(a) = WeekNumber(b)
SameMonth(a, b) == MonthIndex(DayOf(a)) = MonthIndex(DayOf(b))

RECURSIVE SumIdx(_, _)
SumIdx(txs, S) ==
    IF S = {} THEN 0
    ELSE LET i == CHOOSE k \in S : TRUE
         IN  txs[i].amount + SumIdx(txs, S \ {i})

RECURSIVE SumMap(_, _)
SumMap(f, S) ==
    IF S = {} THEN 0
    ELSE LET c == CHOOSE k \in S : TRUE
         IN  f[c] + SumMap(f, S \ {c})

WeekIdx == {i \in DOMAIN transactions : SameWeek(transactions[i].date, today)}
MiscWeekIdx == {i \in WeekIdx : transactions[i].category = "Misc"}
MonthIdx == {i \in DOMAIN transactions : SameMonth(transactions[i].date, today)}

\* field by field: the JSON record j describes the in-memory transaction t
Describes(j, t) ==
    /\ j.id = t.id
    /\ j.amount = t.amount
    /\ j.category = t.category
    /\ j.method = t.method
    /\ j.note = t.note
    /\ j.date = ToISOString(t.date)
    /\ ParseISO(j.date) = t.date

RecordAgreesWithMemory(r) ==
    /\ r.kind = "json"
    /\ Len(r.transactions) = Len(transactions)
    /\ \A i \in 1..Len(transactions) : Describes(r.transactions[i], transactions[i])
    /\ r.budget.monthlyLimit = budget.monthlyLimit
    /\ r.budget.weeklyAllowance = budget.weeklyAllowance

\* C1: once the save effect has run, and in every quiescent state, the stored
\* record is the serialization of the whole current transaction list and of
\* the current budget.
C1_SaveWritesWholeState ==
    (pc = "idle" \/ lastOp = "saveEffect") => RecordAgreesWithMemory(stored)

\* a transaction was added to a loaded list and the save effect has run
C1_Witness ==
    /\ pc = "idle"
    /\ lastOp = "saveEffect"
    /\ nEvents >= 1
    /\ stored0.kind = "json"
    /\ Len(transactions) = Len(stored0.transactions) + 1
    /\ Len(transactions) >= 2

StartupDone == nEvents = 0 /\ pc \in {"save", "idle"}

\* C2: after the load effect and the re-render, the in-memory list and budget
\* equal the stored ones (order, ids, fields); with no stored record the list
\* is empty and the budget is 25000 / 4000.
C2_LoadRestoresState ==
    StartupDone =>
        IF stored0.kind = "json"
        THEN RecordAgreesWithMemory(stored0)
        ELSE /\ transactions = <<>>
             /\ budget.monthlyLimit = 25000
             /\ budget.weeklyAllowance = 4000

\* startup from a record with two transactions and a non-default budget has settled
C2_Witness ==
    /\ StartupDone
    /\ pc = "idle"
    /\ stored0.kind = "json"
    /\ Len(stored0.transactions) = 2
    /\ Len(transactions) = 2
    /\ budget.weeklyAllowance = 1000

\* an optional "-" followed by one or more digits
IsNumberText(text) ==
    /\ Len(text) >= 1
    /\ LET body == IF text[1] = "-" THEN Tail(text) ELSE text
       IN  /\ Len(body) >= 1
           /\ \A i \in 1..Len(body) : IsDigit(body[i])

HandleAddStep == lastOp' = "handleAddTransaction" /\ nEvents' = nEvents + 1

\* C3: handleAddTransaction appends exactly when the amount text is non-empty
\* and numeric; otherwise list, form fields, modal flag and stored record stay
\* as they were and the application keeps running.
C3_AddIffAmountParses ==
    [][HandleAddStep =>
        IF IsNumberText(newAmount)
        THEN /\ Len(transactions') = Len(transactions) + 1
             /\ transactions'[1].amount = ParseFloat(newAmount).val
        ELSE /\ UNCHANGED <<transactions, newAmount, newNote, newCategory,
                            newMethod, isAddModalOpen, stored>>
             /\ pc' = "idle"]_vars

\* the handler has just run on an empty amount and left the form open
C3_Witness ==
    /\ lastOp = "handleAddTransaction"
    /\ newAmount = <<>>
    /\ isAddModalOpen
    /\ pc = "idle"
    /\ newNote = "chai"

Applied == call.fn = "getDailyLimit"

\* C4: getDailyLimit never returns a negative value, and returns 0 for
\* weeklyAllowance 4000, weeklySpent 5000, daysLeft 2.
C4_DailyLimitNonNegative ==
    Applied =>
        /\ call.result.den # 0
        /\ call.result.num * call.result.den >= 0
        /\ (budget.weeklyAllowance = 4000 /\ call.weeklySpent = 5000 /\ call.daysLeft = 2)
               => call.result.num = 0

\* the overspent scenario has been evaluated
C4_Witness ==
    /\ Applied
    /\ budget.weeklyAllowance = 4000
    /\ call.weeklySpent = 5000
    /\ call.daysLeft = 2
    /\ call.result.num = 0

\* C5: getDailyLimit equals max(0, weeklyAllowance - weeklySpent) / max(1, daysLeft);
\* zero or negative daysLeft divides by 1; 4000, 1000, 4 yields 750.
C5_DailyLimitFormula ==
    Applied =>
        LET left == budget.weeklyAllowance - call.weeklySpent
            expNum == IF left < 0 THEN 0 ELSE left
            expDen == IF call.daysLeft < 1 THEN 1 ELSE call.daysLeft
        IN  /\ call.result.den # 0
            /\ call.result.num * expDen = expNum * call.result.den
            /\ (budget.weeklyAllowance = 4000 /\ call.weeklySpent = 1000 /\ call.daysLeft = 4)
                   => call.result.num = 750 * call.result.den

\* zero days left and money left: the division is by 1
C5_Witness ==
    /\ Applied
    /\ call.daysLeft = 0
    /\ budget.weeklyAllowance = 4000
    /\ call.weeklySpent = 1000
    /\ call.result.num = 3000 * call.result.den

\* C6: the Chai-Index alert is raised exactly when this week's Misc total is
\* strictly above 15% of weeklyAllowance: with allowance 1000, not at 150, at 151.
C6_ChaiIndexStrictThreshold ==
    LET misc == SumIdx(transactions, MiscWeekIdx)
    IN  /\ chaiIndexExceeded <=> (100 * misc > 15 * budget.weeklyAllowance)
        /\ (budget.weeklyAllowance = 1000 /\ misc = 150) => ~chaiIndexExceeded
        /\ (budget.weeklyAllowance = 1000 /\ misc = 151) => chaiIndexExceeded

\* Misc 100 + 50 in the week at allowance 1000: exactly on the threshold, no alert
C6_Witness ==
    /\ lastOp = "render"
    /\ budget.weeklyAllowance = 1000
    /\ Len(transactions) = 2
    /\ MiscWeekIdx = {1, 2}
    /\ SumIdx(transactions, MiscWeekIdx) = 150
    /\ ~chaiIndexExceeded

\* C7: with no Misc transaction in the current week the alert is not raised.
C7_NoMiscNoAlert ==
    (MiscWeekIdx = {}) => ~chaiIndexExceeded

\* a loaded budget, this week's spending above 15% of it, none of it Misc
C7_Witness ==
    /\ pc = "idle"
    /\ stored0.kind = "json"
    /\ WeekIdx # {}
    /\ MiscWeekIdx = {}
    /\ 100 * SumIdx(transactions, WeekIdx) > 15 * budget.weeklyAllowance
    /\ ~chaiIndexExceeded

\* C8: the category totals add up to the weekly spent total, only categories
\* of this week's transactions appear, and an empty list gives an empty
\* mapping and a weekly spent of 0.
C8_CategoryTotals ==
    /\ SumMap(categoryData, DOMAIN categoryData) = weeklySpent
    /\ \A c \in DOMAIN categoryData :
           \E i \in WeekIdx : transactions[i].category = c
    /\ (transactions = <<>>) => (DOMAIN categoryData = {} /\ weeklySpent = 0)

\* two transactions of one category inside the week
C8_Witness ==
    /\ lastOp = "render"
    /\ WeekIdx = {1, 2}
    /\ transactions[1].category = transactions[2].category
    /\ DOMAIN categoryData = {transactions[1].category}
    /\ weeklySpent = transactions[1].amount + transactions[2].amount

\* C9: weekly spent, Misc spent and category totals cover exactly the
\* transactions dated Monday 00:00:00 .. Sunday 23:59:59 of today's week, and
\* days-left-in-week is 7 - (days since Monday): 1..7, 7 on Monday, 1 on Sunday.
C9_WeekWindow ==
    /\ weeklyTransactions =
           SelectSeq(transactions, LAMBDA t : SameWeek(t.date, today))
    /\ weeklySpent = SumIdx(transactions, WeekIdx)
    /\ miscSpent = SumIdx(transactions, MiscWeekIdx)
    /\ \A c \in Categories :
           LET idx == {i \in WeekIdx : transactions[i].category = c}
           IN  IF idx = {} THEN c \notin DOMAIN categoryData
               ELSE c \in DOMAIN categoryData /\ categoryData[c] = SumIdx(transactions, idx)
    /\ daysLeftInWeek = 7 - MondayIndex(today)
    /\ daysLeftInWeek \in 1..7

\* Sunday's last tick: a transaction at that very instant is in the window,
\* one at the next Monday's first tick is not
C9_Witness ==
    /\ lastOp = "render"
    /\ MondayIndex(today) = 6
    /\ today = AtEndOfDay(DayOf(today))
    /\ Len(transactions) = 2
    /\ transactions[1].date = today
    /\ transactions[2].date = today + 1
    /\ Len(weeklyTransactions) = 1
    /\ daysLeftInWeek = 1

\* C10: the monthly spent total is the sum over exactly the transactions dated
\* within today's calendar month.
C10_MonthlyWindow ==
    monthlySpent = SumIdx(transactions, MonthIdx)

\* C11: Transaction.fromJSON(t.toJSON()) has the id, amount, category, method,
\* date instant and note of t, although the constructor first drew a fresh id.
C11_RoundTrip ==
    (call.fn = "roundTrip") =>
        /\ call.result.id = call.original.id
        /\ call.result.amount = call.original.amount
        /\ call.result.category = call.original.category
        /\ call.result.method = call.original.method
        /\ call.result.date = call.original.date
        /\ call.result.note = call.original.note

\* a transaction dated at the last tick of a day went through the round trip
\* while the constructor drew another id than its own
C11_Witness ==
    /\ call.fn = "roundTrip"
    /\ call.freshId # call.original.id
    /\ call.result.id = call.original.id
    /\ TickOfDay(call.original.date) = TicksPerDay - 1
    /\ call.result.date = call.original.date

\* C12: no two transactions of the list share an id.
C12_UniqueIds ==
    \A i, j \in DOMAIN transactions :
        (i # j) => (transactions[i].id # transactions[j].id)

AddSucceeds == HandleAddStep /\ pc' = "save"

\* C13: no step changes, removes or reorders a transaction that is in the
\* list; a successful handleAddTransaction puts exactly one new transaction in
\* front of the unchanged list, every other handler and the save effect leave
\* the list as it is.
C13_TransactionsFrame ==
    [][/\ Len(transactions') >= Len(transactions)
       /\ \A i \in 1..Len(transactions) :
              transactions'[i + Len(transactions') - Len(transactions)] = transactions[i]
       /\ AddSucceeds =>
              /\ Len(transactions') = Len(transactions) + 1
              /\ Tail(transactions') = transactions
       /\ (lastOp' \notin {"handleAddTransaction", "rerender"}) =>
              transactions' = transactions]_vars

\* a transaction has just been added in front of a loaded list of two
C13_Witness ==
    /\ lastOp = "handleAddTransaction"
    /\ pc = "save"
    /\ stored0.kind = "json"
    /\ Len(stored0.transactions) = 2
    /\ Len(transactions) = 3
    /\ Describes(stored0.transactions[1], transactions[2])
    /\ Describes(stored0.transactions[2], transactions[3])

StartupOver == nEvents = 0 /\ pc \in {"idle", "crashed"}

\* C14: with a missing or unparseable stored item, startup does not fail and
\* ends with an empty list and the budget 25000 / 4000.
C14_StartupFallsBackToDefaults ==
    (stored0.kind # "json" /\ StartupOver) =>
        /\ pc = "idle"
        /\ transactions = <<>>
        /\ budget.monthlyLimit = 25000
        /\ budget.weeklyAllowance = 4000

\* C15: during startup from a stored record R the stored record keeps every
\* transaction of R, and once startup has settled it equals R.
C15_StartupKeepsStoredData ==
    (stored0.kind = "json" /\ nEvents = 0) =>
        /\ stored.kind = "json"
        /\ \A i \in DOMAIN stored0.transactions :
               \E j \in DOMAIN stored.transactions :
                   stored.transactions[j] = stored0.transactions[i]
        /\ (pc = "idle") => (stored = stored0)

====
